---- MODULE Spec2Model ----
(***************************************************************************)
(* Bundle unpack cache of operator-controller: the tar.gz unpacker         *)
(* (TarGZ.Unpack), the OCI layer unpacker (unpackImage), the generation    *)
(* garbage collector (deleteOtherImages) and Cleanup, over a model of the  *)
(* cache directory tree.                                                   *)
(*                                                                         *)
(* A path is a sequence of segments below "/".  The file system is a       *)
(* function from the paths that exist to their nodes.  Every library call  *)
(* that can fail (MkdirAll, OpenFile, io.Copy, RemoveAll, GetBlob, ...)    *)
(* fails or succeeds nondeterministically.                                 *)
(***************************************************************************)
EXTENDS Integers, Sequences, FiniteSets, TLC

VARIABLES fs, pc, loc, res, faults

vars == <<fs, pc, loc, res, faults>>

(***************************************************************************)
(* Bounds and inputs                                                       *)
(***************************************************************************)
\* number of layers of the largest image
MaxLayers == 2

\* number of library calls that fail in one behaviour, the failures that the
\* state of the file system forces apart
MaxFaults == 2

\* bundle names (BundleSource.Name), as path segments
Names == {<<"A">>, <<"B">>}

\* image digests (digest.String())
Digests == {"AAA", "BBB"}

\* TarGZ.BaseCachePath
BaseCachePath == <<"cache">>

\* every segment that can name a directory entry, in byte order (os.ReadDir
\* and filepath.WalkDir list entries sorted by file name)
SegOrder ==
    <<"A", "AAA", "B", "BBB", "a", "b.txt", "cache", "etc", "f", "g", "s", "x">>

(***************************************************************************)
(* Paths: path.Join / filepath.Join / filepath.Dir                         *)
(***************************************************************************)
RECURSIVE CleanAcc(_, _)
CleanAcc(acc, s) ==
    IF s = <<>> THEN acc
    ELSE LET h == Head(s) IN
         IF h \in {"", "."} THEN CleanAcc(acc, Tail(s))
         ELSE IF h = ".."
              THEN CleanAcc(IF acc = <<>> THEN <<>>
                            ELSE SubSeq(acc, 1, Len(acc) - 1), Tail(s))
              ELSE CleanAcc(Append(acc, h), Tail(s))

\* filepath.Clean of an absolute path
Clean(p) == CleanAcc(<<>>, p)

\* filepath.Join(a, b): the elements are joined by a separator and cleaned
Join(a, b) == Clean(a \o b)

\* filepath.Dir(p)
Dir(p) == IF p = <<>> THEN <<>> ELSE SubSeq(p, 1, Len(p) - 1)

bundlePath(bundleName) == Join(BaseCachePath, bundleName)

unpackPath(bundleName, digest) == Join(bundlePath(bundleName), <<digest>>)

(***************************************************************************)
(* File system                                                             *)
(***************************************************************************)
DirNode(ro) == [kind |-> "dir", ro |-> ro, data |-> <<>>]

FileNode(ro, data) == [kind |-> "file", ro |-> ro, data |-> data]

IsPrefix(p, q) == Len(p) <= Len(q) /\ SubSeq(q, 1, Len(p)) = p

\* p and everything below it
Under(f, p) == {q \in DOMAIN f : IsPrefix(p, q)}

\* the tree at p, with paths relative to p
Subtree(f, p) ==
    {[rel |-> SubSeq(q, Len(p) + 1, Len(q)), node |-> f[q]] : q \in Under(f, p)}

Remove(f, S) == [q \in DOMAIN f \ S |-> f[q]]

Prefixes(p) == {SubSeq(p, 1, k) : k \in 1..Len(p)}

RECURSIVE SelectSegs(_, _, _)
SelectSegs(f, p, segs) ==
    IF segs = <<>> THEN <<>>
    ELSE IF Append(p, Head(segs)) \in DOMAIN f
         THEN <<Head(segs)>> \o SelectSegs(f, p, Tail(segs))
         ELSE SelectSegs(f, p, Tail(segs))

\* os.ReadDir(p): the names of the entries of p, sorted
ReadDir(f, p) == SelectSegs(f, p, SegOrder)

IsDir(f, p) == p = <<>> \/ (p \in DOMAIN f /\ f[p].kind = "dir")

\* os.MkdirAll(p, perm) can succeed: no element of p is a file
MkdirAllOK(f, p) == \A q \in Prefixes(p) : q \in DOMAIN f => f[q].kind = "dir"

\* os.MkdirAll(p, perm): creates p and the missing parents with perm
MkdirAll(f, p, ro) ==
    [q \in DOMAIN f \cup Prefixes(p) |->
        IF q \in DOMAIN f THEN f[q] ELSE DirNode(ro)]

\* os.OpenFile(p, O_CREATE|O_WRONLY, perm) can succeed
OpenFileOK(f, p) == IsDir(f, Dir(p)) /\ (p \in DOMAIN f => f[p].kind = "file")

\* bytes written at offset 0 over the old content: there is no O_TRUNC
WriteOver(old, new) ==
    IF Len(new) >= Len(old) THEN new
    ELSE new \o SubSeq(old, Len(new) + 1, Len(old))

\* OpenFile(p, O_CREATE|O_WRONLY, perm) then io.Copy of data: an existing
\* file keeps its mode and is overwritten from offset 0
WriteFile(f, p, ro, data) ==
    [q \in DOMAIN f \cup {p} |->
        IF q # p THEN f[q]
        ELSE IF p \in DOMAIN f
             THEN FileNode(f[p].ro, WriteOver(f[p].data, data))
             ELSE FileNode(ro, data)]

\* os.RemoveAll(p): removes everything it can and returns the first error
\* it meets; a path that does not exist is no error.  When it fails, either
\* nothing was removed (p cannot be read) or p alone is left (p cannot be
\* removed from its parent)
RemoveAllOutcomes(f, p) ==
    {[fs |-> Remove(f, Under(f, p)), ok |-> TRUE]}
    \cup (IF p \in DOMAIN f
          THEN {[fs |-> f, ok |-> FALSE],
                [fs |-> Remove(f, Under(f, p) \ {p}), ok |-> FALSE]}
          ELSE {})

(***************************************************************************)
(* Helpers of the package that the unpackers call                          *)
(***************************************************************************)
\* deleteRecursive(root): deletes root and everything below it; a path that
\* does not exist is no error
deleteRecursive(f, root) == RemoveAllOutcomes(f, root)

RECURSIVE Walk(_, _), WalkSegs(_, _, _)
\* filepath.WalkDir(p): p, then its entries in name order, depth first
Walk(f, p) == <<p>> \o WalkSegs(f, p, ReadDir(f, p))

WalkSegs(f, p, segs) ==
    IF segs = <<>> THEN <<>>
    ELSE Walk(f, Append(p, Head(segs))) \o WalkSegs(f, p, Tail(segs))

SetReadOnly(f, S) == [q \in DOMAIN f |-> IF q \in S THEN [f[q] EXCEPT !.ro = TRUE] ELSE f[q]]

\* setReadOnlyRecursive(root): marks every file and directory under root
\* read-only; when it fails, the nodes walked before the failure are marked
setReadOnlyRecursive(f, root) ==
    IF root \notin DOMAIN f THEN {[fs |-> f, ok |-> FALSE]}
    ELSE LET w == Walk(f, root) IN
         {[fs |-> SetReadOnly(f, Under(f, root)), ok |-> TRUE]}
         \cup {[fs |-> SetReadOnly(f, {w[i] : i \in 1..j}), ok |-> FALSE] :
                 j \in 0..(Len(w) - 1)}

\* the number of layers of the image with this digest (img.LayerInfos())
LayerCount(digest) == IF digest = "AAA" THEN MaxLayers ELSE 1

\* layer k of the image: the files it writes, in stream order; every layer
\* rewrites f, the first one also writes g
Layer(digest, k) ==
    IF k = 1
    THEN <<[rel |-> <<"g">>, data |-> <<digest>>],
           [rel |-> <<"f">>, data |-> <<digest, ToString(k)>>]>>
    ELSE <<[rel |-> <<"f">>, data |-> <<digest, ToString(k)>>]>>

RECURSIVE ApplyWrites(_, _, _, _)
\* the first j entries of a layer written below root: a file of the layer
\* replaces the file at its path
ApplyWrites(f, root, layer, j) ==
    IF j = 0 THEN f
    ELSE LET g == ApplyWrites(f, root, layer, j - 1)
             p == Join(root, layer[j].rel)
         IN  [q \in DOMAIN g \cup {p} |->
                 IF q = p THEN FileNode(FALSE, layer[j].data) ELSE g[q]]

\* applyLayer(ctx, unpackPath, layerReader): applies the layer onto the
\* directory; when it fails, the entries before the failure are applied
applyLayer(f, root, layer) ==
    {[fs |-> ApplyWrites(f, root, layer, Len(layer)), ok |-> TRUE]}
    \cup {[fs |-> ApplyWrites(f, root, layer, j), ok |-> FALSE] :
            j \in 0..(Len(layer) - 1)}

(***************************************************************************)
(* Archives served for BundleSource.Image.Ref                              *)
(***************************************************************************)
Hello == <<"hel", "lo">>

\* directory a/ and file a/b.txt (mode 0644, bytes "hello")
ArDirFile ==
    <<[name |-> <<"a">>, type |-> "dir", ro |-> FALSE, data |-> <<>>],
      [name |-> <<"a", "b.txt">>, type |-> "reg", ro |-> FALSE, data |-> Hello]>>

\* one symlink entry and one regular file
ArSymFile ==
    <<[name |-> <<"s">>, type |-> "sym", ro |-> FALSE, data |-> <<>>],
      [name |-> <<"f">>, type |-> "reg", ro |-> TRUE, data |-> Hello]>>

\* no entry at all
ArEmpty == <<>>

Archives == {ArDirFile, ArSymFile, ArEmpty}

(***************************************************************************)
(* Calls and results                                                       *)
(***************************************************************************)
\* the empty string, as a path
EmptyStr == <<"">>

NoRes ==
    [name |-> <<>>, op |-> "none", d |-> "", err |-> {}, terminal |-> FALSE,
     state |-> "", root |-> EmptyStr, cleanup |-> "none", after |-> "none",
     ar |-> <<>>, k |-> 0]

IdleLoc ==
    [op |-> "none", ar |-> <<>>, nilImage |-> FALSE, i |-> 0, hack |-> EmptyStr,
     ret |-> NoRes, d |-> "", k |-> 0, ents |-> <<>>, after |-> "none",
     cancel |-> FALSE]

\* Four fields of a result are not part of the value returned, they record
\* the call: cleanup, whether it ran a rollback deletion and how that ended;
\* after, the digest of the unpackImage that returned nil just before it on
\* the same bundle ("none" when the call before it was another one), kept
\* for deleteOtherImages and Cleanup; ar, the archive it was given; k, the layer that failed
\* (unpackImage) or the number of entries deleted (deleteOtherImages).
Cleaned(o) == IF o.ok THEN "ok" ELSE "failed"

\* a returned error: its parts (errors.Join keeps each) and whether it is
\* wrapped by reconcile.TerminalError
Failure(n, op, d, parts, terminal) ==
    [name |-> n, op |-> op, d |-> d, err |-> parts, terminal |-> terminal,
     state |-> "", root |-> EmptyStr, cleanup |-> "none", after |-> "none",
     ar |-> <<>>, k |-> 0]

Success(n, op, d, state, root) ==
    [name |-> n, op |-> op, d |-> d, err |-> {}, terminal |-> FALSE,
     state |-> state, root |-> root, cleanup |-> "none",
     after |-> "none", ar |-> <<>>, k |-> 0]

\* no call is in flight: the caller runs one call at a time
Quiet == \A m \in Names : pc[m] = "idle"

\* the call of bundle n returns r
Return(n, r) ==
    /\ pc' = [pc EXCEPT ![n] = "idle"]
    /\ loc' = [loc EXCEPT ![n] = IdleLoc]
    /\ res' = [r EXCEPT !.after = loc[n].after]

Goto(n, pos, l) ==
    /\ pc' = [pc EXCEPT ![n] = pos]
    /\ loc' = [loc EXCEPT ![n] = l]
    /\ UNCHANGED res

\* the digest D when the call that returned last is an unpackImage of
\* bundle n and D that returned nil, "none" otherwise
Unpacked(n) ==
    IF res.op = "unpackImage" /\ res.name = n /\ res.err = {} THEN res.d ELSE "none"

\* a call of bundle n starts: the result of the call before it is dropped
Call(n, pos, l) ==
    /\ Quiet
    /\ pc' = [pc EXCEPT ![n] = pos]
    /\ loc' = [loc EXCEPT ![n] = l]
    /\ res' = NoRes
    /\ UNCHANGED <<fs, faults>>

\* c of the library calls of this step fail for a reason outside the model
Faults(c) == faults + c <= MaxFaults /\ faults' = faults + c

Cost(ok) == IF ok THEN 0 ELSE 1

\* a call that is given ctx (NewImage, NewImageSource, GetBlob, applyLayer)
\* fails: for no outside reason when ctx is cancelled
CtxCost(n) == IF loc[n].cancel THEN 0 ELSE 1

Init ==
    /\ fs = [q \in {BaseCachePath} |-> DirNode(FALSE)]
    /\ pc = [n \in Names |-> "idle"]
    /\ loc = [n \in Names |-> IdleLoc]
    /\ res = NoRes
    /\ faults = 0

(***************************************************************************)
(* TarGZ.Unpack                                                            *)
(***************************************************************************)
\* unpackDir := path.Join(i.BaseCachePath, bundle.Name)
unpackDir(n) == Join(BaseCachePath, n)

\* the reconciler calls Unpack for a bundle whose archive is ar
UnpackCall(n) ==
    \E ar \in Archives, nilImage \in BOOLEAN :
        /\ nilImage => ar = <<>>
        /\ Call(n, "tgz_fetch",
                [IdleLoc EXCEPT !.op = "Unpack", !.ar = ar, !.nilImage = nilImage])

\* UnpackPreFail with the error returned as it is, not as a terminal error
UnpackPreFailRetriable(n) ==
    /\ pc[n] = "tgz_fetch"
    /\ \E cause \in {"nil image", "download", "status code", "gzip"} :
         /\ (cause = "nil image") <=> loc[n].nilImage
         /\ Faults(IF cause = "nil image" THEN 0 ELSE 1)
         /\ Return(n, Failure(n, "Unpack", "", {cause}, FALSE))
    /\ UNCHANGED fs

\* bundle.Image == nil, http.Get fails, the status is not 200 or the body is
\* no gzip stream: a terminal error, before any directory is made
UnpackPreFail(n) ==
    /\ pc[n] = "tgz_fetch"
    /\ \E cause \in {"nil image", "download", "status code", "gzip"} :
         /\ (cause = "nil image") <=> loc[n].nilImage
         /\ Faults(IF cause = "nil image" THEN 0 ELSE 1)
         /\ Return(n, Failure(n, "Unpack", "", {cause}, TRUE))
    /\ UNCHANGED fs

UnpackFetched(n) ==
    /\ pc[n] = "tgz_fetch"
    /\ ~loc[n].nilImage
    /\ Goto(n, "tgz_mkdir", loc[n])
    /\ UNCHANGED <<fs, faults>>

\* os.MkdirAll(unpackDir, 0700) fails: the error is returned as it is
UnpackMkdirFail(n) ==
    /\ pc[n] = "tgz_mkdir"
    /\ Faults(Cost(~MkdirAllOK(fs, unpackDir(n))))
    /\ Return(n, Failure(n, "Unpack", "", {"creating temporary directory"}, FALSE))
    /\ UNCHANGED fs

\* os.MkdirAll(unpackDir, 0700), the deferred os.RemoveAll(unpackDir) is
\* registered, _hack := ""
UnpackMkdir(n) ==
    /\ pc[n] = "tgz_mkdir"
    /\ MkdirAllOK(fs, unpackDir(n))
    /\ fs' = MkdirAll(fs, unpackDir(n), FALSE)
    /\ Goto(n, "tgz_loop", [loc[n] EXCEPT !.i = 1, !.hack = EmptyStr])
    /\ UNCHANGED faults

PartialLens(data) == 0..(IF Len(data) = 0 THEN 0 ELSE Len(data) - 1)

\* case tar.TypeDir: os.MkdirAll(targetPath, header.Mode)
DirOutcomes(f, hack, header, targetPath) ==
    {[fs |-> f, hack |-> hack, err |-> "mkdir",
      cost |-> Cost(~MkdirAllOK(f, targetPath))]}
    \cup (IF MkdirAllOK(f, targetPath)
          THEN {[fs |-> MkdirAll(f, targetPath, header.ro), hack |-> hack,
                 err |-> "", cost |-> 0]}
          ELSE {})

\* os.OpenFile(targetPath, O_CREATE|O_WRONLY, header.Mode), io.Copy
FileOutcomes(f, hack, header, targetPath) ==
    {[fs |-> f, hack |-> hack, err |-> "open",
      cost |-> Cost(~OpenFileOK(f, targetPath))]}
    \cup (IF OpenFileOK(f, targetPath)
          THEN {[fs |-> WriteFile(f, targetPath, header.ro, header.data),
                 hack |-> hack, err |-> "", cost |-> 0]}
               \cup {[fs |-> WriteFile(f, targetPath, header.ro,
                                       SubSeq(header.data, 1, j)),
                      hack |-> hack, err |-> "copy", cost |-> 1] :
                        j \in PartialLens(header.data)}
          ELSE {})

\* case tar.TypeReg: os.MkdirAll(filepath.Dir(targetPath), 0700), _hack is
\* set at the first regular file, then the file is written
RegOutcomes(f, udir, hack, header, targetPath) ==
    {[fs |-> f, hack |-> hack, err |-> "mkdir",
      cost |-> Cost(~MkdirAllOK(f, Dir(targetPath)))]}
    \cup (IF MkdirAllOK(f, Dir(targetPath))
          THEN FileOutcomes(MkdirAll(f, Dir(targetPath), FALSE),
                            IF hack = EmptyStr
                            THEN Join(udir, Dir(targetPath)) ELSE hack,
                            header, targetPath)
          ELSE {})

\* EntryOutcomes with an entry of another type failing the unpack
EntryOutcomesAbortOther(f, udir, hack, header) ==
    LET targetPath == Join(udir, header.name) IN
    CASE header.type = "dir" -> DirOutcomes(f, hack, header, targetPath)
      [] header.type = "reg" -> RegOutcomes(f, udir, hack, header, targetPath)
      [] OTHER -> {[fs |-> f, hack |-> hack, err |-> "unsupported", cost |-> 0]}

\* one entry of the archive extracted below unpackDir: the file system and
\* _hack afterwards, and the call that failed ("" when none did); an entry
\* of another type is skipped
EntryOutcomes(f, udir, hack, header) ==
    LET targetPath == Join(udir, header.name) IN
    CASE header.type = "dir" -> DirOutcomes(f, hack, header, targetPath)
      [] header.type = "reg" -> RegOutcomes(f, udir, hack, header, targetPath)
      [] OTHER -> {[fs |-> f, hack |-> hack, err |-> "", cost |-> 0]}

\* tarReader.Next() returns a header and the entry is extracted
UnpackEntry(n) ==
    /\ pc[n] = "tgz_loop"
    /\ loc[n].i <= Len(loc[n].ar)
    /\ \E o \in EntryOutcomes(fs, unpackDir(n), loc[n].hack,
                              loc[n].ar[loc[n].i]) :
         /\ o.err = ""
         /\ fs' = o.fs
         /\ UNCHANGED faults
         /\ Goto(n, "tgz_loop", [loc[n] EXCEPT !.i = @ + 1, !.hack = o.hack])

\* MkdirAll, OpenFile or io.Copy fails on the entry: return a terminal error
UnpackEntryFail(n) ==
    /\ pc[n] = "tgz_loop"
    /\ loc[n].i <= Len(loc[n].ar)
    /\ \E o \in EntryOutcomes(fs, unpackDir(n), loc[n].hack,
                              loc[n].ar[loc[n].i]) :
         /\ o.err # ""
         /\ fs' = o.fs
         /\ Faults(o.cost)
         /\ Goto(n, "tgz_defer",
                 [loc[n] EXCEPT !.hack = o.hack,
                                !.ret = Failure(n, "Unpack", "", {o.err}, TRUE)])

\* tarReader.Next() fails, at any position of the stream
UnpackNextFail(n) ==
    /\ pc[n] = "tgz_loop"
    /\ Goto(n, "tgz_defer",
            [loc[n] EXCEPT !.ret = Failure(n, "Unpack", "", {"next"}, TRUE)])
    /\ Faults(1)
    /\ UNCHANGED fs

\* io.EOF: return successHelmUnpackResult(bundle.Name, _hack, bundle.Image.Ref)
UnpackEOF(n) ==
    /\ pc[n] = "tgz_loop"
    /\ loc[n].i = Len(loc[n].ar) + 1
    /\ Goto(n, "tgz_defer",
            [loc[n] EXCEPT !.ret = [Success(n, "Unpack", "", "Unpacked", loc[n].hack)
                                      EXCEPT !.ar = loc[n].ar]])
    /\ UNCHANGED <<fs, faults>>

\* UnpackDefer with the deferred call removing _hack in place of unpackDir
UnpackDeferWrongDir(n) ==
    /\ pc[n] = "tgz_defer"
    /\ \E o \in RemoveAllOutcomes(fs, loc[n].hack) :
         /\ fs' = o.fs
         /\ Faults(Cost(o.ok))
         /\ Return(n, [loc[n].ret EXCEPT !.cleanup = Cleaned(o)])

\* the deferred os.RemoveAll(unpackDir) runs on every return after it was
\* registered; its error is logged, and the return value stays as it was
UnpackDefer(n) ==
    /\ pc[n] = "tgz_defer"
    /\ \E o \in RemoveAllOutcomes(fs, unpackDir(n)) :
         /\ fs' = o.fs
         /\ Faults(Cost(o.ok))
         /\ Return(n, [loc[n].ret EXCEPT !.cleanup = Cleaned(o)])

(***************************************************************************)
(* TarGZ.unpackImage                                                       *)
(***************************************************************************)
\* unpackImage is called with unpackPath(bundleName, digest) and the image
\* of that digest
UnpackImageCall(n) ==
    \E d \in Digests :
        Call(n, "img_open", [IdleLoc EXCEPT !.op = "unpackImage", !.d = d])

\* imageReference.NewImage or imageReference.NewImageSource fails
UnpackImageOpenFail(n) ==
    /\ pc[n] = "img_open"
    /\ \E cause \in {"reading image", "creating image source"} :
         Return(n, Failure(n, "unpackImage", loc[n].d, {cause}, FALSE))
    /\ Faults(CtxCost(n))
    /\ UNCHANGED fs

UnpackImageOpened(n) ==
    /\ pc[n] = "img_open"
    /\ Goto(n, "img_mkdir", loc[n])
    /\ UNCHANGED <<fs, faults>>

\* os.MkdirAll(unpackPath, 0700) fails
UnpackImageMkdirFail(n) ==
    /\ pc[n] = "img_mkdir"
    /\ Return(n, Failure(n, "unpackImage", loc[n].d,
                         {"creating unpack directory"}, FALSE))
    /\ Faults(Cost(~MkdirAllOK(fs, unpackPath(n, loc[n].d))))
    /\ UNCHANGED fs

\* LayerPos with the loop leaving out the last layer
LayerPosSkipLast(d, k) == IF k < LayerCount(d) THEN "img_fetch" ELSE "img_seal"

\* where the loop over img.LayerInfos() stands before layer k
LayerPos(d, k) == IF k <= LayerCount(d) THEN "img_fetch" ELSE "img_seal"

\* os.MkdirAll(unpackPath, 0700), then the loop over the layers starts
UnpackImageMkdir(n) ==
    /\ pc[n] = "img_mkdir"
    /\ MkdirAllOK(fs, unpackPath(n, loc[n].d))
    /\ fs' = MkdirAll(fs, unpackPath(n, loc[n].d), FALSE)
    /\ Goto(n, LayerPos(loc[n].d, 1), [loc[n] EXCEPT !.k = 1])
    /\ UNCHANGED faults

\* layoutSrc.GetBlob returns the reader of layer k
UnpackImageFetch(n) ==
    /\ pc[n] = "img_fetch"
    /\ Goto(n, "img_apply", loc[n])
    /\ UNCHANGED <<fs, faults>>

\* applyLayer succeeds on layer k: on to the next layer
UnpackImageApply(n) ==
    /\ pc[n] = "img_apply"
    /\ \E o \in applyLayer(fs, unpackPath(n, loc[n].d), Layer(loc[n].d, loc[n].k)) :
         /\ o.ok
         /\ fs' = o.fs
         /\ Goto(n, LayerPos(loc[n].d, loc[n].k + 1), [loc[n] EXCEPT !.k = @ + 1])
         /\ UNCHANGED faults

\* the failures of a layer that have a reason outside the model: none when
\* ctx is cancelled, and none when applyLayer writes nothing because the
\* directory is read-only and the process may not write into it
LayerCost(n, f, cause) ==
    IF /\ cause = "applying layer"
       /\ f = fs
       /\ unpackPath(n, loc[n].d) \in DOMAIN fs
       /\ fs[unpackPath(n, loc[n].d)].ro
    THEN 0
    ELSE CtxCost(n)

\* Rollback that returns the error of the layer and deletes nothing
RollbackNoDelete(n, f, cause) ==
    /\ fs' = f
    /\ Faults(LayerCost(n, f, cause))
    /\ Return(n, [Failure(n, "unpackImage", loc[n].d, {cause}, FALSE)
                    EXCEPT !.k = loc[n].k])

\* return errors.Join(err, deleteRecursive(unpackPath)), from the file
\* system f the failed layer left
Rollback(n, f, cause) ==
    \E o \in deleteRecursive(f, unpackPath(n, loc[n].d)) :
        /\ fs' = o.fs
        /\ Faults(LayerCost(n, f, cause) + Cost(o.ok))
        /\ Return(n, [Failure(n, "unpackImage", loc[n].d,
                              {cause} \cup (IF o.ok THEN {} ELSE {"cleanup"}), FALSE)
                        EXCEPT !.cleanup = Cleaned(o), !.k = loc[n].k])

\* layoutSrc.GetBlob fails on layer k
UnpackImageFetchFail(n) ==
    /\ pc[n] = "img_fetch"
    /\ Rollback(n, fs, "getting blob")

\* applyLayer fails on layer k
UnpackImageApplyFail(n) ==
    /\ pc[n] = "img_apply"
    /\ \E o \in applyLayer(fs, unpackPath(n, loc[n].d), Layer(loc[n].d, loc[n].k)) :
         /\ ~o.ok
         /\ Rollback(n, o.fs, "applying layer")

\* SealResult with the error of setReadOnlyRecursive dropped
SealResultIgnoreErr(n, d, ok) == Success(n, "unpackImage", d, "", EmptyStr)

\* what unpackImage returns after setReadOnlyRecursive(unpackPath)
SealResult(n, d, ok) ==
    IF ok THEN Success(n, "unpackImage", d, "", EmptyStr)
    ELSE Failure(n, "unpackImage", d, {"making unpack directory read-only"}, FALSE)

\* all layers are applied: setReadOnlyRecursive(unpackPath), return
UnpackImageSeal(n) ==
    /\ pc[n] = "img_seal"
    /\ \E o \in setReadOnlyRecursive(fs, unpackPath(n, loc[n].d)) :
         /\ fs' = o.fs
         /\ Faults(Cost(o.ok))
         /\ Return(n, SealResult(n, loc[n].d, o.ok))

(***************************************************************************)
(* TarGZ.deleteOtherImages                                                 *)
(***************************************************************************)
DeleteOtherImagesCall(n) ==
    \E digestToKeep \in Digests :
        Call(n, "gc_read",
             [IdleLoc EXCEPT !.op = "deleteOtherImages", !.d = digestToKeep,
                             !.after = Unpacked(n)])

\* os.ReadDir(bundlePath) fails
DeleteOtherImagesReadFail(n) ==
    /\ pc[n] = "gc_read"
    /\ Return(n, [Failure(n, "deleteOtherImages", loc[n].d,
                          {"reading image directories"}, FALSE)
                    EXCEPT !.k = loc[n].k])
    /\ Faults(Cost(~IsDir(fs, bundlePath(n))))
    /\ UNCHANGED fs

\* imgDirs, err := os.ReadDir(bundlePath)
DeleteOtherImagesRead(n) ==
    /\ pc[n] = "gc_read"
    /\ IsDir(fs, bundlePath(n))
    /\ Goto(n, "gc_loop", [loc[n] EXCEPT !.ents = ReadDir(fs, bundlePath(n))])
    /\ UNCHANGED <<fs, faults>>

\* imgDirPath without the name of the entry
imgDirPathParent(n, imgDirName) == bundlePath(n)

\* imgDirPath := filepath.Join(bundlePath, imgDir.Name())
imgDirPath(n, imgDirName) == Join(bundlePath(n), <<imgDirName>>)

\* IsKept with the comparison dropped: no entry is skipped
IsKeptNever(imgDirName, digestToKeep) == FALSE

\* IsKept with every entry skipped
IsKeptAlways(imgDirName, digestToKeep) == TRUE

\* if imgDir.Name() == digestToKeep.String()
IsKept(imgDirName, digestToKeep) == imgDirName = digestToKeep

\* the entry to keep: continue
DeleteOtherImagesSkip(n) ==
    /\ pc[n] = "gc_loop"
    /\ loc[n].ents # <<>>
    /\ IsKept(Head(loc[n].ents), loc[n].d)
    /\ Goto(n, "gc_loop", [loc[n] EXCEPT !.ents = Tail(@)])
    /\ UNCHANGED <<fs, faults>>

\* deleteRecursive(imgDirPath) succeeds
DeleteOtherImagesDelete(n) ==
    /\ pc[n] = "gc_loop"
    /\ loc[n].ents # <<>>
    /\ ~IsKept(Head(loc[n].ents), loc[n].d)
    /\ \E o \in deleteRecursive(fs, imgDirPath(n, Head(loc[n].ents))) :
         /\ o.ok
         /\ fs' = o.fs
         /\ Goto(n, "gc_loop", [loc[n] EXCEPT !.ents = Tail(@), !.k = @ + 1])
         /\ UNCHANGED faults

\* deleteRecursive fails: the error is returned at once
DeleteOtherImagesDeleteFail(n) ==
    /\ pc[n] = "gc_loop"
    /\ loc[n].ents # <<>>
    /\ ~IsKept(Head(loc[n].ents), loc[n].d)
    /\ \E o \in deleteRecursive(fs, imgDirPath(n, Head(loc[n].ents))) :
         /\ ~o.ok
         /\ fs' = o.fs
         /\ Faults(1)
         /\ Return(n, [Failure(n, "deleteOtherImages", loc[n].d,
                               {"removing image directory"}, FALSE)
                         EXCEPT !.k = loc[n].k])

\* the loop is over: return nil
DeleteOtherImagesReturn(n) ==
    /\ pc[n] = "gc_loop"
    /\ loc[n].ents = <<>>
    /\ Return(n, [Success(n, "deleteOtherImages", loc[n].d, "", EmptyStr)
                    EXCEPT !.k = loc[n].k])
    /\ UNCHANGED <<fs, faults>>

(***************************************************************************)
(* TarGZ.Cleanup                                                           *)
(***************************************************************************)
CleanupCall(n) ==
    Call(n, "cleanup", [IdleLoc EXCEPT !.op = "Cleanup", !.after = Unpacked(n)])

\* CleanupResult with the error of deleteRecursive dropped
CleanupResultNil(n, ok) == Success(n, "Cleanup", "", "", EmptyStr)

\* what Cleanup returns: the error of deleteRecursive
CleanupResult(n, ok) ==
    IF ok THEN Success(n, "Cleanup", "", "", EmptyStr)
    ELSE Failure(n, "Cleanup", "", {"cleanup"}, FALSE)

\* return deleteRecursive(i.bundlePath(bundle.Name))
Cleanup(n) ==
    /\ pc[n] = "cleanup"
    /\ \E o \in deleteRecursive(fs, bundlePath(n)) :
         /\ fs' = o.fs
         /\ Faults(Cost(o.ok))
         /\ Return(n, CleanupResult(n, o.ok))

(***************************************************************************)
(* Specification                                                           *)
(***************************************************************************)
Next ==
    \E n \in Names :
        \/ UnpackCall(n)
        \/ UnpackPreFail(n)
        \/ UnpackFetched(n)
        \/ UnpackMkdirFail(n)
        \/ UnpackMkdir(n)
        \/ UnpackEntry(n)
        \/ UnpackEntryFail(n)
        \/ UnpackNextFail(n)
        \/ UnpackEOF(n)
        \/ UnpackDefer(n)
        \/ UnpackImageCall(n)
        \/ UnpackImageOpenFail(n)
        \/ UnpackImageOpened(n)
        \/ UnpackImageMkdirFail(n)
        \/ UnpackImageMkdir(n)
        \/ UnpackImageFetch(n)
        \/ UnpackImageApply(n)
        \/ UnpackImageFetchFail(n)
        \/ UnpackImageApplyFail(n)
        \/ UnpackImageSeal(n)
        \/ DeleteOtherImagesCall(n)
        \/ DeleteOtherImagesReadFail(n)
        \/ DeleteOtherImagesRead(n)
        \/ DeleteOtherImagesSkip(n)
        \/ DeleteOtherImagesDelete(n)
        \/ DeleteOtherImagesDeleteFail(n)
        \/ DeleteOtherImagesReturn(n)
        \/ CleanupCall(n)
        \/ Cleanup(n)

Spec == Init /\ [][Next]_vars

(***************************************************************************)
(* Properties.  In a state where no call is in flight (Quiet), res is the  *)
(* result of the call that returned last and fs is the file system as that *)
(* call left it.                                                           *)
(***************************************************************************)
Returned(op) == Quiet /\ res.op = op

\* the errors of TarGZ.Unpack that arise after os.MkdirAll(unpackDir)
ExtractErrs == {"next", "mkdir", "open", "copy"}

\* the errors of unpackImage that arise in the loop over the layers
LayerErrs == {"getting blob", "applying layer"}

\* every node at or below p is read-only
Sealed(f, p) == p \in DOMAIN f /\ \A q \in Under(f, p) : f[q].ro

\* C1 (as claimed): whenever TarGZ.Unpack returns an error that arose after
\* the namespace directory was created, the namespace directory does not
\* exist.
C1_NoDirAfterFailedUnpack ==
    (Returned("Unpack") /\ res.err \cap ExtractErrs # {})
        => unpackDir(res.name) \notin DOMAIN fs

\* C1 (amended): whenever TarGZ.Unpack returns an error that arose after the
\* namespace directory was created, the deferred os.RemoveAll has run on the
\* namespace directory, and the directory does not exist unless that
\* RemoveAll itself failed.
C1_NoDirAfterFailedUnpackUnlessRemoveFails ==
    (Returned("Unpack") /\ res.err \cap ExtractErrs # {})
        => /\ res.cleanup \in {"ok", "failed"}
           /\ res.cleanup = "ok" => Under(fs, unpackDir(res.name)) = {}

\* C1 witness: io.Copy failed on an entry, the rollback succeeded and the
\* namespace directory is gone.
C1_Witness ==
    /\ Returned("Unpack")
    /\ res.err = {"copy"}
    /\ res.cleanup = "ok"
    /\ unpackDir(res.name) \notin DOMAIN fs

\* the entries of archive ar are on disk below dir: every directory entry
\* is a directory, every regular-file entry a file with the entry's bytes
TreePresent(f, dir, ar) ==
    \A i \in 1..Len(ar) :
        LET p == Join(dir, ar[i].name) IN
        /\ ar[i].type = "dir" => (p \in DOMAIN f /\ f[p].kind = "dir")
        /\ ar[i].type = "reg" =>
              (p \in DOMAIN f /\ f[p].kind = "file" /\ f[p].data = ar[i].data)

\* C2 (as claimed): after TarGZ.Unpack returns successfully with State
\* Unpacked, every directory and regular-file entry of the archive exists
\* under the namespace directory with the archive's bytes.
C2_TreePresentAfterUnpack ==
    (Returned("Unpack") /\ res.err = {} /\ res.state = "Unpacked")
        => TreePresent(fs, unpackDir(res.name), res.ar)

\* C3 (as claimed): when fetching or applying layer k fails, no directory
\* exists at unpackPath(name, digest) when unpackImage returns.
C3_NoDirAfterFailedLayer ==
    (Returned("unpackImage") /\ res.err \cap LayerErrs # {})
        => unpackPath(res.name, res.d) \notin DOMAIN fs

\* C3 (amended): when fetching or applying layer k fails, for every k, no
\* directory exists at unpackPath(name, digest) when unpackImage returns,
\* unless the returned error also carries the error of the rollback
\* deletion.
C3_NoDirAfterFailedLayerUnlessCleanupFails ==
    (Returned("unpackImage") /\ res.err \cap LayerErrs # {})
        => \/ Under(fs, unpackPath(res.name, res.d)) = {}
           \/ "cleanup" \in res.err

\* C3 witness: the last layer of an image of several layers failed to
\* apply, after the layers before it were applied, and the directory is gone.
C3_Witness ==
    /\ Returned("unpackImage")
    /\ res.err = {"applying layer"}
    /\ res.k = LayerCount(res.d)
    /\ res.k > 1
    /\ unpackPath(res.name, res.d) \notin DOMAIN fs

\* C4: whenever unpackImage returns without error, the generation directory
\* exists and every file and directory at or below it is read-only.
C4_ReadOnlyAfterUnpackImage ==
    (Returned("unpackImage") /\ res.err = {})
        => Sealed(fs, unpackPath(res.name, res.d))

\* C4 witness: unpackImage returned nil and left files of the layers.
C4_Witness ==
    /\ Returned("unpackImage")
    /\ res.err = {}
    /\ Join(unpackPath(res.name, res.d), <<"f">>) \in DOMAIN fs
    /\ fs[Join(unpackPath(res.name, res.d), <<"f">>)].ro

\* C5 (as claimed): a generation directory that has been sealed read-only
\* is never modified in place: no step of unpackImage on its bundle changes
\* it, and it changes only when deleteOtherImages or Cleanup removes it
\* (TarGZ.Unpack is outside the sequences the claim is about).
C5_SealedNeverMutated ==
    [][\A n \in Names, d \in Digests :
          Sealed(fs, unpackPath(n, d))
              => \/ Subtree(fs', unpackPath(n, d)) = Subtree(fs, unpackPath(n, d))
                 \/ loc[n].op \in {"deleteOtherImages", "Cleanup"}
                 \/ \E m \in Names : loc[m].op = "Unpack"]_vars

\* C6: no step of deleteOtherImages(name, digestToKeep), whatever its
\* outcome, deletes or changes the entry of bundlePath(name) named
\* digestToKeep or anything below it.
C6_KeepUntouched ==
    [][\A n \in Names :
          loc[n].op = "deleteOtherImages"
              => Subtree(fs', unpackPath(n, loc[n].d))
                   = Subtree(fs, unpackPath(n, loc[n].d))]_vars

\* C6 witness: deleteOtherImages deleted another entry and the sealed
\* generation to keep is still there.
C6_Witness ==
    /\ Returned("deleteOtherImages")
    /\ res.k >= 1
    /\ Sealed(fs, unpackPath(res.name, res.d))
    /\ Join(unpackPath(res.name, res.d), <<"g">>) \in DOMAIN fs

\* C7 (as claimed): after deleteOtherImages(name, keep) returns,
\* bundlePath(name) contains exactly one entry.
C7_ExactlyOneEntry ==
    Returned("deleteOtherImages")
        => Len(ReadDir(fs, bundlePath(res.name))) = 1

\* C7 (amended): after deleteOtherImages(name, keep) returns without error,
\* bundlePath(name) contains no entry other than keep: exactly one entry
\* when the directory named keep exists, none otherwise.
C7_OnlyKeepRemains ==
    (Returned("deleteOtherImages") /\ res.err = {})
        => ReadDir(fs, bundlePath(res.name))
             = (IF unpackPath(res.name, res.d) \in DOMAIN fs
                THEN <<res.d>> ELSE <<>>)

\* C7 witness: deleteOtherImages deleted an entry and returned nil with the
\* entry to keep as the only one.
C7_Witness ==
    /\ Returned("deleteOtherImages")
    /\ res.err = {}
    /\ res.k >= 1
    /\ ReadDir(fs, bundlePath(res.name)) = <<res.d>>

\* C8: when deleteOtherImages(name, Dn) returns no error and the call
\* before it was an unpackImage of the bundle and Dn that returned no error,
\* the generation directory of Dn, sealed, is the only entry of
\* bundlePath(name).
C8_SingleLiveGeneration ==
    (Returned("deleteOtherImages") /\ res.err = {} /\ res.after = res.d)
        => /\ ReadDir(fs, bundlePath(res.name)) = <<res.d>>
           /\ Sealed(fs, unpackPath(res.name, res.d))

\* C8 witness: after the unpack of BBB, deleteOtherImages(keep = BBB)
\* deleted an older entry and left BBB alone.
C8_Witness ==
    /\ Returned("deleteOtherImages")
    /\ res.err = {}
    /\ res.after = "BBB"
    /\ res.d = "BBB"
    /\ res.k >= 1
    /\ unpackPath(res.name, "AAA") \notin DOMAIN fs
    /\ Sealed(fs, unpackPath(res.name, "BBB"))

\* C9 (as claimed): Cleanup(name) on a bundle with no cache entry returns no
\* error and changes nothing (so does a second call); after a successful
\* unpack it removes bundlePath(name) with every generation directory.
C9_CleanupRemovesAll ==
    [][\A n \in Names :
          pc[n] = "cleanup"
              => /\ bundlePath(n) \notin DOMAIN fs => (fs' = fs /\ res'.err = {})
                 /\ loc[n].after \in Digests => Under(fs', bundlePath(n)) = {}]_vars

\* C9 (amended): Cleanup(name) on a bundle with no cache entry returns no
\* error and changes nothing (so does a second call after a first that
\* returned no error); whenever it returns no error, bundlePath(name) and
\* every generation directory are gone.
C9_CleanupRemovesAllUnlessError ==
    [][\A n \in Names :
          pc[n] = "cleanup"
              => /\ bundlePath(n) \notin DOMAIN fs => (fs' = fs /\ res'.err = {})
                 /\ res'.err = {} => Under(fs', bundlePath(n)) = {}]_vars

\* C9 witness: Cleanup after a successful unpackImage returned nil and the
\* directory of the bundle is gone.
C9_Witness ==
    /\ Returned("Cleanup")
    /\ res.err = {}
    /\ res.after \in Digests
    /\ Under(fs, bundlePath(res.name)) = {}

\* C10 (as claimed): whenever extraction fails part-way and the rollback
\* deletion fails too, the error returned contains both the original cause
\* and the cleanup failure, for unpackImage and for TarGZ.Unpack.
C10_CleanupErrorReturned ==
    (/\ Quiet
     /\ res.op \in {"Unpack", "unpackImage"}
     /\ res.err # {}
     /\ res.cleanup = "failed")
        => /\ "cleanup" \in res.err
           /\ res.err \ {"cleanup"} # {}

(***************************************************************************)
(* TarGZ.Unpack of archives whose entry names are not trusted              *)
(***************************************************************************)
\* one regular file named "../B/x"
ArEscape ==
    <<[name |-> <<"..", "B", "x">>, type |-> "reg", ro |-> FALSE, data |-> Hello]>>

\* one regular file named "/etc/x": the name starts with a separator
ArAbsolute ==
    <<[name |-> <<"", "etc", "x">>, type |-> "reg", ro |-> FALSE, data |-> Hello]>>

UntrustedArchives == {ArEscape, ArAbsolute}

\* the reconciler calls Unpack for a bundle whose archive is served by
\* someone else
UnpackUntrustedCall(n) ==
    \E ar \in UntrustedArchives :
        Call(n, "tgz_fetch", [IdleLoc EXCEPT !.op = "Unpack", !.ar = ar])

NextUntrusted ==
    \E n \in Names :
        \/ UnpackUntrustedCall(n)
        \/ UnpackPreFail(n)
        \/ UnpackFetched(n)
        \/ UnpackMkdirFail(n)
        \/ UnpackMkdir(n)
        \/ UnpackEntry(n)
        \/ UnpackEntryFail(n)
        \/ UnpackNextFail(n)
        \/ UnpackEOF(n)
        \/ UnpackDefer(n)

SpecUntrusted == Init /\ [][NextUntrusted]_vars

\* path q is not the same in f and g
Changed(f, g, q) ==
    \/ (q \in DOMAIN f) # (q \in DOMAIN g)
    \/ q \in DOMAIN f /\ q \in DOMAIN g /\ f[q] # g[q]

\* an entry name that is absolute or has a traversal segment
Unsafe(name) ==
    name # <<>> /\ (Head(name) = "" \/ \E i \in 1..Len(name) : name[i] = "..")

\* C11 (as claimed): no step of TarGZ.Unpack creates or writes a path
\* outside the namespace directory root/<name> (the directories above it
\* apart), and an entry whose name is absolute or has a traversal segment
\* is rejected with the file system untouched.
C11_NoWriteOutsideNamespace ==
    [][\A n \in Names :
          loc[n].op = "Unpack"
              => /\ \A q \in DOMAIN fs \cup DOMAIN fs' :
                       Changed(fs, fs', q)
                           => IsPrefix(unpackDir(n), q) \/ IsPrefix(q, unpackDir(n))
                 /\ (/\ pc[n] = "tgz_loop"
                     /\ loc[n].i <= Len(loc[n].ar)
                     /\ Unsafe(loc[n].ar[loc[n].i].name))
                        => fs' = fs /\ pc'[n] = "tgz_defer"]_vars

(***************************************************************************)
(* The cache layout functions, applied to two (name, digest) pairs         *)
(***************************************************************************)
\* bundle names as strings, split at the separator: "A", "B", "A/AAA",
\* "A/../B" and "../cache/A"
LayoutNames ==
    {<<"A">>, <<"B">>, <<"A", "AAA">>, <<"A", "..", "B">>, <<"..", "cache", "A">>}

LayoutInputs == [name : LayoutNames, digest : Digests]

\* loc holds the two pairs, res the paths computed for them
InitLayout ==
    /\ fs = [q \in {BaseCachePath} |-> DirNode(FALSE)]
    /\ pc = [n \in Names |-> "idle"]
    /\ loc \in [{"first", "second"} -> LayoutInputs]
    /\ res = NoRes
    /\ faults = 0

\* i.unpackPath of both pairs and i.bundlePath of the second name
LayoutPaths ==
    /\ res = NoRes
    /\ res' = [first |-> unpackPath(loc.first.name, loc.first.digest),
               second |-> unpackPath(loc.second.name, loc.second.digest),
               bundle |-> bundlePath(loc.second.name)]
    /\ UNCHANGED <<fs, pc, loc, faults>>

NextLayout == LayoutPaths

SpecLayout == InitLayout /\ [][NextLayout]_vars

\* C12 (as claimed): two distinct (name, digest) pairs have distinct
\* unpackPaths, and the unpackPath of a pair is not the bundlePath of
\* another bundle, also for names with separators or traversal segments.
C12_LayoutInjective ==
    res # NoRes
        => /\ loc.first # loc.second => res.first # res.second
           /\ loc.first.name # loc.second.name => res.first # res.bundle

(***************************************************************************)
(* Two bundles processed concurrently: a call of one bundle starts while   *)
(* a call of the other is in flight                                        *)
(***************************************************************************)
\* a call of bundle n starts when no call of bundle n is in flight
Start(n, pos, l) ==
    /\ pc[n] = "idle"
    /\ pc' = [pc EXCEPT ![n] = pos]
    /\ loc' = [loc EXCEPT ![n] = l]
    /\ res' = NoRes
    /\ UNCHANGED <<fs, faults>>

ConcurrentArchives == {ArSymFile, ArEscape}

UnpackStart(n) ==
    \E ar \in ConcurrentArchives :
        Start(n, "tgz_fetch", [IdleLoc EXCEPT !.op = "Unpack", !.ar = ar])

UnpackImageStart(n) ==
    \E d \in Digests :
        Start(n, "img_open", [IdleLoc EXCEPT !.op = "unpackImage", !.d = d])

DeleteOtherImagesStart(n) ==
    \E digestToKeep \in Digests :
        Start(n, "gc_read",
              [IdleLoc EXCEPT !.op = "deleteOtherImages", !.d = digestToKeep])

CleanupStart(n) == Start(n, "cleanup", [IdleLoc EXCEPT !.op = "Cleanup"])

NextConcurrent ==
    \E n \in Names :
        \/ UnpackStart(n)
        \/ UnpackPreFail(n)
        \/ UnpackFetched(n)
        \/ UnpackMkdirFail(n)
        \/ UnpackMkdir(n)
        \/ UnpackEntry(n)
        \/ UnpackEntryFail(n)
        \/ UnpackNextFail(n)
        \/ UnpackEOF(n)
        \/ UnpackDefer(n)
        \/ UnpackImageStart(n)
        \/ UnpackImageOpenFail(n)
        \/ UnpackImageOpened(n)
        \/ UnpackImageMkdirFail(n)
        \/ UnpackImageMkdir(n)
        \/ UnpackImageFetch(n)
        \/ UnpackImageApply(n)
        \/ UnpackImageFetchFail(n)
        \/ UnpackImageApplyFail(n)
        \/ UnpackImageSeal(n)
        \/ DeleteOtherImagesStart(n)
        \/ DeleteOtherImagesReadFail(n)
        \/ DeleteOtherImagesRead(n)
        \/ DeleteOtherImagesSkip(n)
        \/ DeleteOtherImagesDelete(n)
        \/ DeleteOtherImagesDeleteFail(n)
        \/ DeleteOtherImagesReturn(n)
        \/ CleanupStart(n)
        \/ Cleanup(n)

\* number of library calls that fail while the two bundles are processed
\* concurrently
MaxConcurrentFaults == 1

InitConcurrent ==
    /\ fs = [q \in {BaseCachePath} |-> DirNode(FALSE)]
    /\ pc = [n \in Names |-> "idle"]
    /\ loc = [n \in Names |-> IdleLoc]
    /\ res = NoRes
    /\ faults = MaxFaults - MaxConcurrentFaults

SpecConcurrent == InitConcurrent /\ [][NextConcurrent]_vars

\* C13 (as claimed): no step of a call on one bundle changes a path at or
\* below the directory of another bundle, whatever the calls and however
\* they interleave.
C13_BundlesIsolated ==
    [][\A n, m \in Names :
          (n # m /\ pc[n] # "idle" /\ loc'[m] = loc[m] /\ pc'[m] = pc[m])
              => \A q \in DOMAIN fs \cup DOMAIN fs' :
                    Changed(fs, fs', q) => ~IsPrefix(bundlePath(m), q)]_vars

(***************************************************************************)
(* Properties of the steps of one call                                     *)
(***************************************************************************)
\* the step is a step of the call of bundle n
StepOf(n) == pc'[n] # pc[n] \/ loc'[n] # loc[n]

\* C14: unpackImage handles the layers one at a time in the order of
\* LayerInfos: the blob of layer 1 is fetched after the directory is made
\* and the blob of layer k+1 only by the step in which applyLayer returned
\* nil for layer k; a layer is applied only after its own blob was fetched;
\* the read-only marking starts only when the last layer has been applied;
\* and when fetching or applying layer k fails the call returns at once
\* with the error of layer k, so that no later layer is fetched or applied.
C14_LayersInOrder ==
    [][\A n \in Names :
          (loc[n].op = "unpackImage" /\ StepOf(n))
              => LET d == loc[n].d
                     k == loc[n].k
                 IN  /\ pc'[n] = "img_fetch"
                          => \/ pc[n] = "img_mkdir" /\ loc'[n].k = 1
                             \/ /\ pc[n] = "img_apply"
                                /\ loc'[n].k = k + 1
                                /\ k + 1 <= LayerCount(d)
                     /\ pc'[n] = "img_apply"
                          => /\ pc[n] = "img_fetch"
                             /\ loc'[n].k = k
                             /\ k \in 1..LayerCount(d)
                             /\ fs' = fs
                     /\ pc'[n] = "img_seal"
                          => pc[n] = "img_apply" /\ k = LayerCount(d)
                     /\ pc[n] \in {"img_fetch", "img_apply"}
                          => \/ pc'[n] \in {"img_fetch", "img_apply", "img_seal"}
                             \/ /\ pc'[n] = "idle"
                                /\ res'.err \cap LayerErrs # {}
                                /\ res'.k = k]_vars

\* C14 witness: unpackImage of the image with the most layers returned nil;
\* file f, which every layer rewrites, holds the bytes of the last layer and
\* file g those of the first.
C14_Witness ==
    /\ Returned("unpackImage")
    /\ res.err = {}
    /\ LayerCount(res.d) = MaxLayers
    /\ Join(unpackPath(res.name, res.d), <<"f">>) \in DOMAIN fs
    /\ fs[Join(unpackPath(res.name, res.d), <<"f">>)].data
          = <<res.d, ToString(MaxLayers)>>
    /\ fs[Join(unpackPath(res.name, res.d), <<"g">>)].data = <<res.d>>

\* the archive has an entry that is neither a directory nor a regular file
HasOtherType(ar) == \E i \in 1..Len(ar) : ar[i].type \notin {"dir", "reg"}

\* C15: an archive entry of any type other than directory or regular file
\* never aborts TarGZ.Unpack.  The step that handles such an entry creates
\* no filesystem object, records no error and moves on to the next entry
\* of the stream (the only other step at that position is tarReader.Next()
\* failing to read the header); and in a behaviour where no library call
\* fails, every Unpack of a bundle with an image source, archives with such
\* entries included, returns no error with State Unpacked.
C15_OtherTypesSkipped ==
    /\ [](( /\ Returned("Unpack")
            /\ faults = 0
            /\ "nil image" \notin res.err)
               => res.err = {} /\ res.state = "Unpacked")
    /\ [][\A n \in Names :
             (/\ loc[n].op = "Unpack"
              /\ StepOf(n)
              /\ pc[n] = "tgz_loop"
              /\ loc[n].i <= Len(loc[n].ar)
              /\ loc[n].ar[loc[n].i].type \notin {"dir", "reg"})
                 => \/ /\ pc'[n] = "tgz_defer"
                       /\ loc'[n].ret.err = {"next"}
                       /\ fs' = fs
                    \/ /\ pc'[n] = "tgz_loop"
                       /\ loc'[n] = [loc[n] EXCEPT !.i = @ + 1]
                       /\ fs' = fs]_vars

\* C15 witness: Unpack of the archive with one symlink and one regular file
\* returned no error with State Unpacked, and no object exists at the path
\* of the symlink.
C15_Witness ==
    /\ Returned("Unpack")
    /\ HasOtherType(res.ar)
    /\ res.err = {}
    /\ res.state = "Unpacked"
    /\ Join(unpackDir(res.name), <<"s">>) \notin DOMAIN fs

\* the errors of TarGZ.Unpack that arise before os.MkdirAll(unpackDir)
PreErrs == {"nil image", "download", "status code", "gzip"}

\* C16: every failure of TarGZ.Unpack that precedes extraction (nil image
\* source, transport error of the fetch, status other than 200, malformed
\* gzip header) is returned as a terminal error, and no step of the call up
\* to that return changes the cache directory tree: the deferred removal
\* of the namespace directory has not been registered and does not run.
C16_PreExtractionFailuresTerminal ==
    /\ [](( Returned("Unpack") /\ res.err \cap PreErrs # {})
              => res.terminal /\ res.cleanup = "none")
    /\ [][\A n \in Names :
             (loc[n].op = "Unpack" /\ StepOf(n) /\ pc[n] = "tgz_fetch")
                 => /\ fs' = fs
                    /\ pc'[n] = "idle"
                         => /\ res'.terminal
                            /\ res'.err # {}
                            /\ res'.err \subseteq PreErrs]_vars

\* C16 witness: Unpack returned a terminal error for a malformed gzip
\* header while the directory of the bundle, left by an earlier
\* unpackImage, is still there.
C16_Witness ==
    /\ Returned("Unpack")
    /\ res.err = {"gzip"}
    /\ res.terminal
    /\ \E d \in Digests : Sealed(fs, unpackPath(res.name, d))

(***************************************************************************)
(* The cycle unpackImage, deleteOtherImages, unpackImage of one digest     *)
(***************************************************************************)
\* the digest D when the call that returned last is a deleteOtherImages of
\* bundle n and D that returned nil, directly after an unpackImage of
\* bundle n and D that returned nil; "none" otherwise
Collected(n) ==
    IF /\ res.op = "deleteOtherImages"
       /\ res.name = n
       /\ res.err = {}
       /\ res.after = res.d
    THEN res.d
    ELSE "none"

\* unpackImage is called again for the digest that was unpacked and kept
UnpackImageAgainCall(n) ==
    /\ Collected(n) \in Digests
    /\ Call(n, "img_open",
            [IdleLoc EXCEPT !.op = "unpackImage", !.d = Collected(n),
                            !.after = Collected(n)])

NextCycle ==
    \E n \in Names :
        \/ UnpackImageCall(n)
        \/ UnpackImageAgainCall(n)
        \/ UnpackImageOpenFail(n)
        \/ UnpackImageOpened(n)
        \/ UnpackImageMkdirFail(n)
        \/ UnpackImageMkdir(n)
        \/ UnpackImageFetch(n)
        \/ UnpackImageApply(n)
        \/ UnpackImageFetchFail(n)
        \/ UnpackImageApplyFail(n)
        \/ UnpackImageSeal(n)
        \/ DeleteOtherImagesCall(n)
        \/ DeleteOtherImagesReadFail(n)
        \/ DeleteOtherImagesRead(n)
        \/ DeleteOtherImagesSkip(n)
        \/ DeleteOtherImagesDelete(n)
        \/ DeleteOtherImagesDeleteFail(n)
        \/ DeleteOtherImagesReturn(n)

SpecCycle == Init /\ [][NextCycle]_vars

RECURSIVE ApplyLayers(_, _, _, _)
\* the first k layers of the image applied below root, in order
ApplyLayers(f, root, d, k) ==
    IF k = 0 THEN f
    ELSE ApplyWrites(ApplyLayers(f, root, d, k - 1), root,
                     Layer(d, k), Len(Layer(d, k)))

\* the tree of a generation of digest d: every layer applied onto an empty
\* directory, then everything marked read-only
GenerationTree(d) ==
    LET root == <<"generation">>
        empty == [q \in {root} |-> DirNode(FALSE)]
        applied == ApplyLayers(empty, root, d, LayerCount(d))
    IN  Subtree(SetReadOnly(applied, DOMAIN applied), root)

\* C17 (as claimed): when unpackImage is called again for the same
\* (name, digest) after an unpackImage and a deleteOtherImages(name, digest)
\* that both returned nil, and no library call fails for an outside
\* reason, it returns nil and leaves the tree of the generation as the
\* first call left it.
C17_SecondUnpackSameTree ==
    (Returned("unpackImage") /\ res.after = res.d /\ faults = 0)
        => /\ res.err = {}
           /\ Subtree(fs, unpackPath(res.name, res.d)) = GenerationTree(res.d)

(***************************************************************************)
(* Cancellation of ctx while an unpack is in flight                        *)
(***************************************************************************)
\* where a call stands while it fetches or extracts
InFlight == {"tgz_fetch", "tgz_loop", "img_fetch", "img_apply"}

\* the caller cancels ctx.  TarGZ.Unpack hands ctx to no call it makes;
\* unpackImage hands it to GetBlob and applyLayer, which may return its
\* error from then on
Cancel(n) ==
    /\ pc[n] \in InFlight
    /\ ~loc[n].cancel
    /\ loc' = [loc EXCEPT ![n].cancel = TRUE]
    /\ UNCHANGED <<fs, pc, res, faults>>

NextCancel ==
    \E n \in Names :
        \/ Cancel(n)
        \/ UnpackCall(n)
        \/ UnpackPreFail(n)
        \/ UnpackFetched(n)
        \/ UnpackMkdirFail(n)
        \/ UnpackMkdir(n)
        \/ UnpackEntry(n)
        \/ UnpackEntryFail(n)
        \/ UnpackNextFail(n)
        \/ UnpackEOF(n)
        \/ UnpackDefer(n)
        \/ UnpackImageCall(n)
        \/ UnpackImageOpenFail(n)
        \/ UnpackImageOpened(n)
        \/ UnpackImageMkdirFail(n)
        \/ UnpackImageMkdir(n)
        \/ UnpackImageFetch(n)
        \/ UnpackImageApply(n)
        \/ UnpackImageFetchFail(n)
        \/ UnpackImageApplyFail(n)
        \/ UnpackImageSeal(n)

SpecCancel == Init /\ [][NextCancel]_vars

\* C18 (as claimed): a call of TarGZ.Unpack or unpackImage whose ctx was
\* cancelled while it was fetching or extracting returns an error, and
\* when it returns its namespace or generation directory does not exist.
C18_CancelledUnpackFails ==
    [][\A n \in Names :
          (/\ loc[n].cancel
           /\ pc[n] # "idle"
           /\ pc'[n] = "idle")
              => /\ res'.err # {}
                 /\ loc[n].op = "Unpack" => Under(fs', unpackDir(n)) = {}
                 /\ loc[n].op = "unpackImage"
                      => Under(fs', unpackPath(n, loc[n].d)) = {}]_vars

(***************************************************************************)
(* Properties of the results                                               *)
(***************************************************************************)
\* C19 (as claimed): the directory handed to os.DirFS in the Result of a
\* successful TarGZ.Unpack is the namespace directory root/<name>, for
\* every archive.
C19_RootIsNamespaceDir ==
    (Returned("Unpack") /\ res.err = {})
        => res.root = unpackDir(res.name)

\* C20 (as claimed): whenever unpackImage returns, with any outcome, the
\* generation directory is absent, or it is complete (it holds what all
\* the layers applied in order leave) and everything in it is read-only.
C20_AbsentOrSealed ==
    Returned("unpackImage")
        => \/ Under(fs, unpackPath(res.name, res.d)) = {}
           \/ /\ Sealed(fs, unpackPath(res.name, res.d))
              /\ Subtree(fs, unpackPath(res.name, res.d)) = GenerationTree(res.d)

(***************************************************************************)
(* The Helm applier (package applier): Helmer.Apply and getReleaseState.   *)
(* In SpecHelm fs is the release store of the ClusterExtension (the        *)
(* release that cl.Get(ext.GetName()) finds), pc the position of the one   *)
(* Apply call, loc its local variables and res what the last call          *)
(* returned.                                                               *)
(***************************************************************************)
\* release.Release.Manifest
Manifests == {"m1", "m2"}

\* release.Release.Info.Status
Statuses == {"deployed", "failed", "superseded", "pending-upgrade"}

\* a nil *release.Release
NilRelease == [exists |-> FALSE, manifest |-> "", status |-> ""]

Release(manifest, status) ==
    [exists |-> TRUE, manifest |-> manifest, status |-> status]

\* what the release store can hold for the extension
Stores == {NilRelease} \cup {Release(m, st) : m \in Manifests, st \in Statuses}

\* cl.Get(ext.GetName()): the release of the store, driver.ErrReleaseNotFound
\* when there is none, or another error
GetOutcomes(store) ==
    {[rel |-> NilRelease, err |-> "other"]}
    \cup (IF store.exists
          THEN {[rel |-> store, err |-> "nil"]}
          ELSE {[rel |-> NilRelease, err |-> "not found"]})

\* cl.Install or cl.Upgrade with DryRun = true: the release that the chart
\* and the values render to, or an error; the store is left as it is
DryRunOutcomes(desired, status) ==
    {[rel |-> Release(desired, status), err |-> "nil"],
     [rel |-> NilRelease, err |-> "dry-run"]}

\* getReleaseState with the status of the current release left out of the
\* comparison
getReleaseStateManifestOnly(get, installDry, upgradeDry) ==
    IF get.err # "nil" /\ get.err # "not found"
    THEN [rel |-> NilRelease, desired |-> NilRelease, state |-> "Error",
          err |-> get.err, dry |-> <<>>]
    ELSE IF get.err = "not found"
    THEN [rel |-> NilRelease, desired |-> NilRelease, state |-> "NeedsInstall",
          err |-> "nil", dry |-> <<>>]
    ELSE IF upgradeDry.err # "nil"
    THEN [rel |-> get.rel, desired |-> NilRelease, state |-> "Error",
          err |-> upgradeDry.err, dry |-> <<"Upgrade">>]
    ELSE [rel |-> get.rel, desired |-> upgradeDry.rel,
          state |-> IF upgradeDry.rel.manifest # get.rel.manifest
                    THEN "NeedsUpgrade" ELSE "Unchanged",
          err |-> "nil", dry |-> <<"Upgrade">>]

\* Helmer.getReleaseState, given what cl.Get returns and what the dry runs
\* return when they are made: the current release, the desired release, the
\* state and the error; dry lists the dry runs that were made
getReleaseState(get, installDry, upgradeDry) ==
    IF get.err # "nil" /\ get.err # "not found"
    THEN [rel |-> NilRelease, desired |-> NilRelease, state |-> "Error",
          err |-> get.err, dry |-> <<>>]
    ELSE IF get.err = "not found"
    THEN [rel |-> NilRelease, desired |-> NilRelease, state |-> "NeedsInstall",
          err |-> "nil", dry |-> <<>>]
    ELSE IF get.err = "not found"
    THEN IF installDry.err # "nil"
         THEN [rel |-> NilRelease, desired |-> NilRelease, state |-> "Error",
               err |-> installDry.err, dry |-> <<"Install">>]
         ELSE [rel |-> NilRelease, desired |-> installDry.rel,
               state |-> "NeedsInstall", err |-> "nil", dry |-> <<"Install">>]
    ELSE IF upgradeDry.err # "nil"
    THEN [rel |-> get.rel, desired |-> NilRelease, state |-> "Error",
          err |-> upgradeDry.err, dry |-> <<"Upgrade">>]
    ELSE [rel |-> get.rel, desired |-> upgradeDry.rel,
          state |-> IF \/ upgradeDry.rel.manifest # get.rel.manifest
                       \/ get.rel.status = "failed"
                       \/ get.rel.status = "superseded"
                    THEN "NeedsUpgrade" ELSE "Unchanged",
          err |-> "nil", dry |-> <<"Upgrade">>]

\* the two Helmer types of the sources: the one that reads the values from
\* the ConfigMap named ConfigMapName, and the one that reads them through
\* processConfig with a token of TokenGetter
Variants == {"ConfigMapName", "TokenGetter"}

NoGet == [rel |-> NilRelease, err |-> ""]

NoState ==
    [rel |-> NilRelease, desired |-> NilRelease, state |-> "", err |-> "",
     dry |-> <<>>]

\* the locals of Apply; acts lists the calls of ac.Install, ac.Upgrade and
\* ac.Reconcile it has made, get and upgradeDry are what cl.Get and the
\* dry-run upgrade returned inside getReleaseState, rs what getReleaseState
\* returned
HelmIdle ==
    [variant |-> "", desired |-> "", acts |-> <<>>, get |-> NoGet,
     upgradeDry |-> NoGet, rs |-> NoState, rel |-> NilRelease]

HelmNoRes ==
    [op |-> "none", returned |-> FALSE, failed |-> "", state |-> "",
     err |-> "", objects |-> "", acts |-> <<>>, get |-> NoGet, rs |-> NoState]

\* what a call of Apply ends with: the step that failed ("" when none), the
\* state and the error returned, the manifest the objects are read from;
\* returned is FALSE when the call ended the process and returned nothing
HelmResult(returned, failed, state, err, objects) ==
    [op |-> "Apply", returned |-> returned, failed |-> failed, state |-> state,
     err |-> err, objects |-> objects, acts |-> loc.acts, get |-> loc.get,
     rs |-> loc.rs]

HelmReturn(r) ==
    /\ pc' = "idle"
    /\ loc' = HelmIdle
    /\ res' = r

HelmGoto(pos, l) ==
    /\ pc' = pos
    /\ loc' = l
    /\ UNCHANGED res

InitHelm ==
    /\ fs \in Stores
    /\ pc = "idle"
    /\ loc = HelmIdle
    /\ res = HelmNoRes
    /\ faults = 0

\* the reconciler calls Apply with a chart and values that render to the
\* manifest desired
ApplyCall ==
    /\ pc = "idle"
    /\ \E v \in Variants, desired \in Manifests :
         /\ pc' = "load"
         /\ loc' = [HelmIdle EXCEPT !.variant = v, !.desired = desired]
    /\ res' = HelmNoRes
    /\ UNCHANGED <<fs, faults>>

\* loadChartFromFS fails
ApplyLoadFail ==
    /\ pc = "load"
    /\ Faults(1)
    /\ HelmReturn(HelmResult(TRUE, "chart", "", "load chart", ""))
    /\ UNCHANGED fs

ApplyLoaded ==
    /\ pc = "load"
    /\ HelmGoto("config", loc)
    /\ UNCHANGED <<fs, faults>>

\* h.Client.Get of the ConfigMap fails with an error other than not found,
\* or values.yaml does not parse; processConfig returns an error
ApplyConfigFail ==
    /\ pc = "config"
    /\ Faults(1)
    /\ \E cause \in {"retrieve ConfigMap", "parse values"} :
         HelmReturn(HelmResult(TRUE, "config", "", cause, ""))
    /\ UNCHANGED fs

\* processConfig: tokenGetter.Get or createClientWithToken fails and
\* log.Fatalf ends the process
ApplyConfigFatal ==
    /\ pc = "config"
    /\ loc.variant = "TokenGetter"
    /\ Faults(1)
    /\ \E cause \in {"get token", "create client with token"} :
         HelmReturn(HelmResult(FALSE, "config", "", cause, ""))
    /\ UNCHANGED fs

ApplyConfigured ==
    /\ pc = "config"
    /\ HelmGoto("client", loc)
    /\ UNCHANGED <<fs, faults>>

\* h.ActionClientGetter.ActionClientFor fails
ApplyClientFail ==
    /\ pc = "client"
    /\ Faults(1)
    /\ HelmReturn(HelmResult(TRUE, "client", "", "action client", ""))
    /\ UNCHANGED fs

ApplyClient ==
    /\ pc = "client"
    /\ HelmGoto("state", loc)
    /\ UNCHANGED <<fs, faults>>

\* rel, _, state, err := h.getReleaseState(ac, ext, chrt, values, post)
ApplyGetReleaseState ==
    /\ pc = "state"
    /\ \E get \in GetOutcomes(fs),
          installDry \in DryRunOutcomes(loc.desired, "pending-install"),
          upgradeDry \in DryRunOutcomes(loc.desired, "pending-upgrade") :
         LET rs == getReleaseState(get, installDry, upgradeDry) IN
         /\ installDry.err = "nil" \/ "Install" \in {rs.dry[i] : i \in DOMAIN rs.dry}
         /\ upgradeDry.err = "nil" \/ "Upgrade" \in {rs.dry[i] : i \in DOMAIN rs.dry}
         /\ Faults(Cost(get.err # "other") + Cost(installDry.err = "nil")
                     + Cost(upgradeDry.err = "nil"))
         /\ HelmGoto("switch",
                     [loc EXCEPT !.get = get, !.upgradeDry = upgradeDry,
                                 !.rs = rs, !.rel = rs.rel])
    /\ UNCHANGED fs

\* if err != nil { return nil, "", err }
ApplyStateErr ==
    /\ pc = "switch"
    /\ loc.rs.err # "nil"
    /\ HelmReturn(HelmResult(TRUE, "state", "", loc.rs.err, ""))
    /\ UNCHANGED <<fs, faults>>

\* case StateNeedsInstall: ac.Install returns the release it stored
ApplyInstall ==
    /\ pc = "switch"
    /\ loc.rs.err = "nil"
    /\ loc.rs.state = "NeedsInstall"
    /\ fs' = Release(loc.desired, "deployed")
    /\ HelmGoto("objects", [loc EXCEPT !.acts = Append(@, "Install"),
                                       !.rel = Release(loc.desired, "deployed")])
    /\ UNCHANGED faults

\* ac.Install fails: no release is stored, or a failed one
ApplyInstallFail ==
    /\ pc = "switch"
    /\ loc.rs.err = "nil"
    /\ loc.rs.state = "NeedsInstall"
    /\ fs' \in {fs, Release(loc.desired, "failed")}
    /\ Faults(1)
    /\ HelmReturn([HelmResult(TRUE, "action", loc.rs.state, "install", "")
                     EXCEPT !.acts = Append(loc.acts, "Install")])

\* case StateNeedsUpgrade: ac.Upgrade returns the release it stored
ApplyUpgrade ==
    /\ pc = "switch"
    /\ loc.rs.err = "nil"
    /\ loc.rs.state = "NeedsUpgrade"
    /\ fs' = Release(loc.desired, "deployed")
    /\ HelmGoto("objects", [loc EXCEPT !.acts = Append(@, "Upgrade"),
                                       !.rel = Release(loc.desired, "deployed")])
    /\ UNCHANGED faults

\* ac.Upgrade fails: the store is as it was, or the new release is failed
ApplyUpgradeFail ==
    /\ pc = "switch"
    /\ loc.rs.err = "nil"
    /\ loc.rs.state = "NeedsUpgrade"
    /\ fs' \in {fs, Release(loc.desired, "failed")}
    /\ Faults(1)
    /\ HelmReturn([HelmResult(TRUE, "action", loc.rs.state, "upgrade", "")
                     EXCEPT !.acts = Append(loc.acts, "Upgrade")])

\* case StateUnchanged: ac.Reconcile(rel) on the current release
ApplyReconcile ==
    /\ pc = "switch"
    /\ loc.rs.err = "nil"
    /\ loc.rs.state = "Unchanged"
    /\ HelmGoto("objects", [loc EXCEPT !.acts = Append(@, "Reconcile")])
    /\ UNCHANGED <<fs, faults>>

ApplyReconcileFail ==
    /\ pc = "switch"
    /\ loc.rs.err = "nil"
    /\ loc.rs.state = "Unchanged"
    /\ Faults(1)
    /\ HelmReturn([HelmResult(TRUE, "action", loc.rs.state, "reconcile", "")
                     EXCEPT !.acts = Append(loc.acts, "Reconcile")])
    /\ UNCHANGED fs

\* util.ManifestObjects(rel.Manifest) fails
ApplyObjectsFail ==
    /\ pc = "objects"
    /\ Faults(1)
    /\ HelmReturn(HelmResult(TRUE, "objects", loc.rs.state, "manifest objects", ""))
    /\ UNCHANGED fs

\* return relObjects, state, nil
ApplyObjects ==
    /\ pc = "objects"
    /\ HelmReturn(HelmResult(TRUE, "", loc.rs.state, "nil", loc.rel.manifest))
    /\ UNCHANGED <<fs, faults>>

\* the default case of the switch, "unexpected release state", is never
\* taken: getReleaseState returns a nil error only with one of the three
\* states above
NextHelm ==
    \/ ApplyCall
    \/ ApplyLoadFail
    \/ ApplyLoaded
    \/ ApplyConfigFail
    \/ ApplyConfigFatal
    \/ ApplyConfigured
    \/ ApplyClientFail
    \/ ApplyClient
    \/ ApplyGetReleaseState
    \/ ApplyStateErr
    \/ ApplyInstall
    \/ ApplyInstallFail
    \/ ApplyUpgrade
    \/ ApplyUpgradeFail
    \/ ApplyReconcile
    \/ ApplyReconcileFail
    \/ ApplyObjectsFail
    \/ ApplyObjects

SpecHelm == InitHelm /\ [][NextHelm]_vars

\* the claimed classification of what cl.Get and the dry-run upgrade
\* returned into the state rs
Classified(get, upgradeDry, rs) ==
    LET differs == upgradeDry.rel.manifest # get.rel.manifest
        broken == get.rel.status \in {"failed", "superseded"}
        found == get.err = "nil"
        rendered == found /\ upgradeDry.err = "nil"
    IN  /\ rs.state \in {"NeedsInstall", "Error", "NeedsUpgrade", "Unchanged"}
        /\ rs.state = "NeedsInstall" <=> get.err = "not found"
        /\ rs.state = "NeedsInstall" => rs.dry = <<>>
        /\ rs.state = "Error"
             <=> (get.err = "other" \/ (found /\ upgradeDry.err # "nil"))
        /\ rs.state = "Error" <=> rs.err # "nil"
        /\ rs.state = "NeedsUpgrade" <=> (rendered /\ (differs \/ broken))
        /\ rs.state = "Unchanged" <=> (rendered /\ ~differs /\ ~broken)

\* C21: getReleaseState classifies every situation of the release store
\* into exactly one state: NeedsInstall when the release is not found, with
\* no dry run made; Error, with an error, when the lookup fails for another
\* reason or the dry-run upgrade fails; NeedsUpgrade when the manifest of
\* the dry-run upgrade differs from the current one or the status of the
\* current release is failed or superseded; Unchanged only when the
\* manifests are equal and the status is neither of the two.
C21_ReleaseStateClassified ==
    pc = "switch" => Classified(loc.get, loc.upgradeDry, loc.rs)

\* C21 witness: getReleaseState returned NeedsUpgrade for a release whose
\* manifest is the one the dry run rendered and whose status is superseded.
C21_Witness ==
    /\ pc = "switch"
    /\ loc.rs.state = "NeedsUpgrade"
    /\ loc.get.rel.manifest = loc.upgradeDry.rel.manifest
    /\ loc.get.rel.status = "superseded"

\* C22 (as claimed): a call of Apply makes at most one of ac.Install,
\* ac.Upgrade and ac.Reconcile, and the one it makes matches the state:
\* Install only when no release exists, Upgrade only when a release exists
\* and needs upgrade, Reconcile only when unchanged; and when chart loading,
\* config processing, client creation or getReleaseState fails, it has made
\* none of them and returns an error.
C22_OneActionMatchingState ==
    /\ pc # "idle" => Len(loc.acts) <= 1
    /\ (pc = "idle" /\ res.op = "Apply")
          => /\ Len(res.acts) <= 1
             /\ \A i \in DOMAIN res.acts :
                  /\ res.acts[i] = "Install" => res.get.err = "not found"
                  /\ res.acts[i] = "Upgrade"
                       => res.get.err = "nil" /\ res.rs.state = "NeedsUpgrade"
                  /\ res.acts[i] = "Reconcile" => res.rs.state = "Unchanged"
             /\ res.failed \in {"chart", "config", "client", "state"}
                  => /\ res.acts = <<>>
                     /\ res.returned
                     /\ res.err # "nil"

====
